---- MODULE Spec2Model ----
(***************************************************************************)
(* Model of parse_script (src/app.py, lines 26-75): marker normalisation,  *)
(* segmentation on the canonical tags, SPEECH clean-up, per-line fallback  *)
(* and assembly.  A text is a sequence of one-character strings; every     *)
(* regular expression of the source is an operator that scans the text the *)
(* way Python's re module does (leftmost match, non-overlapping, greedy or *)
(* lazy as written).                                                       *)
(***************************************************************************)
EXTENDS Integers, Sequences, FiniteSets, TLC

VARIABLES raw, full_text, parts, idx, current_tag, clean_audio, clean_visuals,
          lines, lidx, pc, result

vars == <<raw, full_text, parts, idx, current_tag, clean_audio, clean_visuals,
          lines, lidx, pc, result>>

(***************************************************************************)
(* Bounds of the input families.                                           *)
(***************************************************************************)
MaxSegs == 2

MaxCleanLen == 3

MaxLines == 2

(***************************************************************************)
(* Characters and character classes.                                       *)
(***************************************************************************)
LowerSeq == <<"a", "b", "c", "d", "e", "f", "g", "h", "i", "j", "k", "l", "m",
              "n", "o", "p", "q", "r", "s", "t", "u", "v", "w", "x", "y", "z">>

UpperSeq == <<"A", "B", "C", "D", "E", "F", "G", "H", "I", "J", "K", "L", "M",
              "N", "O", "P", "Q", "R", "S", "T", "U", "V", "W", "X", "Y", "Z">>

LowerLetters == {LowerSeq[i] : i \in 1..Len(LowerSeq)}

UpperLetters == {UpperSeq[i] : i \in 1..Len(UpperSeq)}

Digits == {"0", "1", "2", "3", "4", "5", "6", "7", "8", "9"}

UpperOf == [c \in LowerLetters |-> UpperSeq[CHOOSE i \in 1..Len(LowerSeq) : LowerSeq[i] = c]]

LowerOf == [c \in UpperLetters |-> LowerSeq[CHOOSE i \in 1..Len(UpperSeq) : UpperSeq[i] = c]]

\* str.upper() / re.IGNORECASE on one character
ToUpper(c) == IF c \in LowerLetters THEN UpperOf[c] ELSE c

ToLower(c) == IF c \in UpperLetters THEN LowerOf[c] ELSE c

\* \w
IsWordChar(c) == c \in LowerLetters \cup UpperLetters \cup Digits \cup {"_"}

\* \s, and the characters str.strip() removes
IsSpace(c) == c \in {" ", "\n", "\t", "\r"}

Min(S) == CHOOSE x \in S : \A y \in S : x <= y

Max(S) == CHOOSE x \in S : \A y \in S : x >= y

\* part.upper()
Upper(s) == [i \in 1..Len(s) |-> ToUpper(s[i])]

\* str.strip()
Strip(s) ==
    LET keep == {i \in 1..Len(s) : ~IsSpace(s[i])}
    IN  IF keep = {} THEN <<>> ELSE SubSeq(s, Min(keep), Max(keep))

(***************************************************************************)
(* Marker normalisation: the two re.sub calls of lines 28-29.              *)
(***************************************************************************)
\* the alternatives of line 28, in pattern order
VisualWords == << <<"S", "C", "E", "N", "E", " ", "D", "E", "S", "C", "R", "I", "P", "T", "I", "O", "N">>,
                  <<"S", "C", "E", "N", "E">>,
                  <<"V", "I", "S", "U", "A", "L", "S">> >>

\* the alternatives of line 29, in pattern order
AudioWords == << <<"S", "C", "R", "I", "P", "T">>,
                 <<"N", "A", "R", "R", "A", "T", "I", "O", "N">>,
                 <<"A", "U", "D", "I", "O">> >>

VisualTag == <<"[", "V", "I", "S", "U", "A", "L", "]">>

AudioTag == <<"[", "A", "U", "D", "I", "O", "]">>

\* a literal (upper-case) pattern word matches at position p, ignoring case
MatchesAt(text, p, word) ==
    /\ p + Len(word) - 1 <= Len(text)
    /\ \A k \in 1..Len(word) : ToUpper(text[p + k - 1]) = word[k]

\* (?:w1|w2|...): the length of the first alternative that matches at p, else 0
WordLenAt(text, p, words) ==
    LET hits == {i \in 1..Len(words) : MatchesAt(text, p, words[i])}
    IN  IF hits = {} THEN 0 ELSE Len(words[Min(hits)])

\* \[?(?:...)\]?:? at position p: the length of the match, 0 when there is none
MarkerMatchLen(text, p, words) ==
    LET q == IF text[p] = "[" THEN p + 1 ELSE p
        w == WordLenAt(text, q, words)
        r == q + w
        s == IF r <= Len(text) /\ text[r] = "]" THEN r + 1 ELSE r
        t == IF s <= Len(text) /\ text[s] = ":" THEN s + 1 ELSE s
    IN  IF w = 0 THEN 0 ELSE t - p

RECURSIVE SubMarkers(_, _, _, _)
\* re.sub(pattern, repl, text, flags=re.IGNORECASE), scanning from position p
SubMarkers(text, p, words, repl) ==
    IF p > Len(text) THEN <<>>
    ELSE LET n == MarkerMatchLen(text, p, words)
         IN  IF n > 0 THEN repl \o SubMarkers(text, p + n, words, repl)
             ELSE <<text[p]>> \o SubMarkers(text, p + 1, words, repl)

NormalizeVisual(text) == SubMarkers(text, 1, VisualWords, VisualTag)

NormalizeAudio(text) == SubMarkers(text, 1, AudioWords, AudioTag)

(***************************************************************************)
(* Segmentation: re.split with a capturing group, line 32.                 *)
(***************************************************************************)
\* \[(?:VISUAL|AUDIO)\] at position p: the length of the match, 0 when none
TagMatchLen(text, p) ==
    IF MatchesAt(text, p, VisualTag) THEN Len(VisualTag)
    ELSE IF MatchesAt(text, p, AudioTag) THEN Len(AudioTag)
    ELSE 0

RECURSIVE SplitFrom(_, _, _)
\* the fragments from position p on, cur being the text since the last marker
SplitFrom(text, p, cur) ==
    IF p > Len(text) THEN <<cur>>
    ELSE LET n == TagMatchLen(text, p)
         IN  IF n > 0
             THEN <<cur, SubSeq(text, p, p + n - 1)>> \o SplitFrom(text, p + n, <<>>)
             ELSE SplitFrom(text, p + 1, Append(cur, text[p]))

SplitOnTags(text) == SplitFrom(text, 1, <<>>)

(***************************************************************************)
(* SPEECH clean-up, lines 50-59.                                           *)
(***************************************************************************)
\* the first ')' after position p, 0 when there is none
NextClose(text, p) ==
    LET c == {j \in (p + 1)..Len(text) : text[j] = ")"}
    IN  IF c = {} THEN 0 ELSE Min(c)

RECURSIVE RemoveParensFrom(_, _)
RemoveParensFrom(text, p) ==
    IF p > Len(text) THEN <<>>
    ELSE IF text[p] = "(" /\ NextClose(text, p) # 0
         THEN RemoveParensFrom(text, NextClose(text, p) + 1)
         ELSE <<text[p]>> \o RemoveParensFrom(text, p + 1)

\* re.sub(r'\(.*?\)', '', part, flags=re.DOTALL)
RemoveParens(text) == RemoveParensFrom(text, 1)

\* ^ under re.MULTILINE
AtLineStart(text, p) == p = 1 \/ text[p - 1] = "\n"

\* the last position of the line that holds position p
LineEnd(text, p) ==
    LET nl == {j \in p..Len(text) : text[j] = "\n"}
    IN  IF nl = {} THEN Len(text) ELSE Min(nl) - 1

RECURSIVE RemoveHeadingsFrom(_, _)
RemoveHeadingsFrom(text, p) ==
    IF p > Len(text) THEN <<>>
    ELSE IF AtLineStart(text, p) /\ text[p] = "#"
         THEN RemoveHeadingsFrom(text, LineEnd(text, p) + 1)
         ELSE <<text[p]>> \o RemoveHeadingsFrom(text, p + 1)

\* re.sub(r'^#+.*$', '', content, flags=re.MULTILINE)
RemoveHeadings(text) == RemoveHeadingsFrom(text, 1)

\* \w+:\s* at position p: the position after the match, 0 when there is none
PrefixMatchEnd(text, p) ==
    LET nonw == {j \in p..Len(text) : ~IsWordChar(text[j])}
        c    == IF nonw = {} THEN 0 ELSE Min(nonw)
        nons == {j \in (c + 1)..Len(text) : ~IsSpace(text[j])}
    IN  IF c > p /\ text[c] = ":"
        THEN (IF nons = {} THEN Len(text) + 1 ELSE Min(nons))
        ELSE 0

RECURSIVE RemovePrefixFrom(_, _)
RemovePrefixFrom(text, p) ==
    IF p > Len(text) THEN <<>>
    ELSE IF AtLineStart(text, p) /\ PrefixMatchEnd(text, p) # 0
         THEN RemovePrefixFrom(text, PrefixMatchEnd(text, p))
         ELSE <<text[p]>> \o RemovePrefixFrom(text, p + 1)

\* re.sub(r'^\w+:\s*', '', content, flags=re.MULTILINE)
RemovePrefix(text) == RemovePrefixFrom(text, 1)

RECURSIVE RemoveStarPairsFrom(_, _)
RemoveStarPairsFrom(text, p) ==
    IF p > Len(text) THEN <<>>
    ELSE IF text[p] = "*" /\ p < Len(text) /\ text[p + 1] = "*"
         THEN RemoveStarPairsFrom(text, p + 2)
         ELSE <<text[p]>> \o RemoveStarPairsFrom(text, p + 1)

\* RemoveStars without its second replace: only "**" is removed
RemoveStarPairs(text) == RemoveStarPairsFrom(text, 1)

IsNotStar(c) == c # "*"

\* content.replace("**", "").replace("*", "")
RemoveStars(text) == SelectSeq(text, IsNotStar)

\* lines 50-56: the content of a SPEECH fragment before the final strip
CleanContent(part) == RemoveStars(RemovePrefix(RemoveHeadings(RemoveParens(part))))

\* lines 50-59: the block a SPEECH fragment contributes (empty: none)
CleanAudio(part) == Strip(CleanContent(part))

(***************************************************************************)
(* Fallback classification, lines 66-73, and assembly, line 75.            *)
(***************************************************************************)
RECURSIVE SplitLinesFrom(_, _, _)
SplitLinesFrom(text, p, cur) ==
    IF p > Len(text) THEN <<cur>>
    ELSE IF text[p] = "\n"
         THEN <<cur>> \o SplitLinesFrom(text, p + 1, <<>>)
         ELSE SplitLinesFrom(text, p + 1, Append(cur, text[p]))

\* full_text.split('\n')
SplitLines(text) == SplitLinesFrom(text, 1, <<>>)

\* sub in s (case-sensitive)
Contains(s, sub) ==
    \E p \in 1..Len(s) :
        /\ p + Len(sub) - 1 <= Len(s)
        /\ \A k \in 1..Len(sub) : s[p + k - 1] = sub[k]

\* line.startswith(c)
StartsWith(s, c) == Len(s) >= 1 /\ s[1] = c

\* the condition of line 70
IsVisualLine(line) ==
    \/ StartsWith(line, "(")
    \/ StartsWith(line, "[")
    \/ Contains(line, <<"E", "X", "T", ".">>)
    \/ Contains(line, <<"I", "N", "T", ".">>)

RECURSIVE Join(_)
\* "\n\n".join(blocks)
Join(blocks) ==
    IF blocks = <<>> THEN <<>>
    ELSE IF Len(blocks) = 1 THEN blocks[1]
    ELSE blocks[1] \o <<"\n", "\n">> \o Join(Tail(blocks))

(***************************************************************************)
(* The inputs parse_script is run on (its parameter, line 26).             *)
(***************************************************************************)
\* marker, content, marker, content, ...: up to MaxSegs tagged segments
StructMarkers == {VisualTag, AudioTag, <<"S", "C", "E", "N", "E", ":">>}

StructContents == {<<>>, <<" ", "a">>, <<"b", "\n">>, <<"(", "a", ")">>}

StructPres == {<<>>, <<"a", " ">>}

RECURSIVE SegTexts(_)
SegTexts(k) ==
    IF k = 0 THEN {<<>>}
    ELSE {m \o c \o rest : m \in StructMarkers, c \in StructContents, rest \in SegTexts(k - 1)}

StructInputs == {pre \o t : pre \in StructPres, t \in UNION {SegTexts(k) : k \in 0..MaxSegs}}

\* an [AUDIO] run over the characters the clean-up looks at
CleanAlphabet == {"a", ":", " ", "\n", "(", ")", "#", "*"}

CleanRuns == UNION {[1..k -> CleanAlphabet] : k \in 0..MaxCleanLen}

CleanInputs == {AudioTag \o s : s \in CleanRuns}

\* texts without any marker: up to MaxLines lines
FallbackLines == {<<>>, <<"(", "a">>, <<"[", "a">>, <<"a">>, <<" ", "a">>, <<"E", "X", "T", ".">>, <<"a", "I", "N", "T", ".">>, <<"e", "x", "t", ".">>}

RECURSIVE LineTexts(_)
LineTexts(k) ==
    IF k = 1 THEN FallbackLines
    ELSE {l \o <<"\n">> \o rest : l \in FallbackLines, rest \in LineTexts(k - 1)}

FallbackInputs == UNION {LineTexts(k) : k \in 1..MaxLines}

\* every marker spelling of each class, followed by " a"
VisualSpellings == {VisualWords[i] : i \in 1..Len(VisualWords)} \cup {<<"V", "I", "S", "U", "A", "L">>}

AudioSpellings == {AudioWords[i] : i \in 1..Len(AudioWords)}

Lower(s) == [i \in 1..Len(s) |-> ToLower(s[i])]

Capitalised(s) == [i \in 1..Len(s) |-> IF i = 1 THEN ToUpper(s[i]) ELSE ToLower(s[i])]

\* a spelling in upper, lower and capitalised case, bare or bracketed,
\* with or without a trailing colon
SpellingForms(w) ==
    {b[1] \o c \o b[2] \o colon :
        c \in {w, Lower(w), Capitalised(w)},
        b \in {<<<<>>, <<>>>>, <<<<"[">>, <<"]">>>>},
        colon \in {<<>>, <<":">>}}

SpellingContent == <<" ", "a">>

SpellingInputsOf(words) == {f \o SpellingContent : f \in UNION {SpellingForms(w) : w \in words}}

SpellingInputs == SpellingInputsOf(VisualSpellings) \cup SpellingInputsOf(AudioSpellings)

\* marker words inside ordinary prose
ProseScript == <<"a", " ", "s", "c", "r", "i", "p", "t", " ", "b">>

ProseDescription == <<"d", "e", "s", "c", "r", "i", "p", "t", "i", "o", "n">>

ProseScene == <<"t", "h", "e", " ", "s", "c", "e", "n", "e">>

ProseInputs == {ProseScript, ProseDescription, ProseScene}

\* the examples of the specification
ExampleOrder == <<"[", "V", "I", "S", "U", "A", "L", "]", " ", "A", " ", "[", "A", "U", "D", "I", "O", "]", " ", "B", " ", "[", "V", "I", "S", "U", "A", "L", "]", " ", "C">>

ExampleRun == <<"H", "O", "S", "T", ":", " ", "H", "e", "y", " ", "e", "v", "e", "r", "y", "o", "n", "e", " ", "(", "s", "m", "i", "l", "e", "s", ")", " ", "*", "*", "w", "e", "l", "c", "o", "m", "e", "*", "*", "\n", "#", " ", "I", "n", "t", "r", "o", "\n", "L", "e", "t", "'", "s", " ", "d", "i", "v", "e", " ", "i", "n">>

ExampleCleanup == AudioTag \o ExampleRun

ExampleFallback == <<"(", "w", "i", "d", "e", " ", "s", "h", "o", "t", ")", "\n", "H", "e", "l", "l", "o", " ", "t", "h", "e", "r", "e", "\n", "E", "X", "T", ".", " ", "P", "A", "R", "K", " ", "-", " ", "D", "A", "Y", "\n", "L", "e", "t", "'", "s", " ", "g", "o">>

ExamplePartial == <<"[", "S", "C", "R", "I", "P", "T">>

ExampleStarred == <<"[", "A", "U", "D", "I", "O", "]", "[", "A", "U", "D", "*", "I", "O", "]", " ", "x">>

ExampleInputs == {ExampleOrder, ExampleCleanup, ExampleFallback, ExamplePartial, ExampleStarred}

Inputs == StructInputs \cup CleanInputs \cup FallbackInputs \cup SpellingInputs
              \cup ProseInputs \cup ExampleInputs

(***************************************************************************)
(* parse_script as a state machine: pc is the position in the function.    *)
(***************************************************************************)
Init ==
    /\ raw \in Inputs
    /\ full_text = raw
    /\ parts = <<>>
    /\ idx = 0
    /\ current_tag = "None"
    /\ clean_audio = <<>>
    /\ clean_visuals = <<>>
    /\ lines = <<>>
    /\ lidx = 0
    /\ pc = "normalize"
    /\ result = <<>>

\* lines 28-29
Normalize ==
    /\ pc = "normalize"
    /\ full_text' = NormalizeAudio(NormalizeVisual(full_text))
    /\ pc' = "split"
    /\ UNCHANGED <<raw, parts, idx, current_tag, clean_audio, clean_visuals, lines, lidx, result>>

\* lines 32-37
Split ==
    /\ pc = "split"
    /\ parts' = SplitOnTags(full_text)
    /\ clean_audio' = <<>>
    /\ clean_visuals' = <<>>
    /\ current_tag' = "None"
    /\ idx' = 1
    /\ pc' = "loop"
    /\ UNCHANGED <<raw, full_text, lines, lidx, result>>

\* the fragment the loop of line 39 is at, stripped (line 40)
Part == Strip(parts[idx])

InLoop == pc = "loop" /\ idx <= Len(parts)

\* lines 41-42
SkipEmpty ==
    /\ InLoop
    /\ Part = <<>>
    /\ idx' = idx + 1
    /\ UNCHANGED <<raw, full_text, parts, current_tag, clean_audio, clean_visuals, lines, lidx, pc, result>>

\* lines 44-45
SeeAudioTag ==
    /\ InLoop
    /\ Part # <<>>
    /\ Upper(Part) = AudioTag
    /\ current_tag' = "AUDIO"
    /\ idx' = idx + 1
    /\ UNCHANGED <<raw, full_text, parts, clean_audio, clean_visuals, lines, lidx, pc, result>>

\* lines 46-47
SeeVisualTag ==
    /\ InLoop
    /\ Part # <<>>
    /\ Upper(Part) # AudioTag
    /\ Upper(Part) = VisualTag
    /\ current_tag' = "VISUAL"
    /\ idx' = idx + 1
    /\ UNCHANGED <<raw, full_text, parts, clean_audio, clean_visuals, lines, lidx, pc, result>>

IsText(part) == part # <<>> /\ Upper(part) # AudioTag /\ Upper(part) # VisualTag

\* lines 48-59
AudioContent ==
    /\ InLoop
    /\ IsText(Part)
    /\ current_tag = "AUDIO"
    /\ clean_audio' = IF CleanAudio(Part) # <<>>
                      THEN Append(clean_audio, CleanAudio(Part))
                      ELSE clean_audio
    /\ idx' = idx + 1
    /\ UNCHANGED <<raw, full_text, parts, current_tag, clean_visuals, lines, lidx, pc, result>>

\* VisualContent putting the new block first
VisualContentPrepend ==
    /\ InLoop
    /\ IsText(Part)
    /\ current_tag = "VISUAL"
    /\ clean_visuals' = <<Strip(Part)>> \o clean_visuals
    /\ idx' = idx + 1
    /\ UNCHANGED <<raw, full_text, parts, current_tag, clean_audio, lines, lidx, pc, result>>

\* lines 61-62
VisualContent ==
    /\ InLoop
    /\ IsText(Part)
    /\ current_tag = "VISUAL"
    /\ clean_visuals' = Append(clean_visuals, Strip(Part))
    /\ idx' = idx + 1
    /\ UNCHANGED <<raw, full_text, parts, current_tag, clean_audio, lines, lidx, pc, result>>

\* Untagged taking text before the first marker as speech
UntaggedAsSpeech ==
    /\ InLoop
    /\ IsText(Part)
    /\ current_tag = "None"
    /\ clean_audio' = Append(clean_audio, Part)
    /\ idx' = idx + 1
    /\ UNCHANGED <<raw, full_text, parts, current_tag, clean_visuals, lines, lidx, pc, result>>

\* a text fragment while current_tag is None: no branch of lines 44-62 is taken
Untagged ==
    /\ InLoop
    /\ IsText(Part)
    /\ current_tag = "None"
    /\ idx' = idx + 1
    /\ UNCHANGED <<raw, full_text, parts, current_tag, clean_audio, clean_visuals, lines, lidx, pc, result>>

LoopOver == pc = "loop" /\ idx > Len(parts)

\* lines 65-66: nothing was collected
EnterFallback ==
    /\ LoopOver
    /\ clean_audio = <<>> /\ clean_visuals = <<>>
    /\ lines' = SplitLines(full_text)
    /\ lidx' = 1
    /\ pc' = "fallback"
    /\ UNCHANGED <<raw, full_text, parts, idx, current_tag, clean_audio, clean_visuals, result>>

\* line 65: something was collected
SkipFallback ==
    /\ LoopOver
    /\ ~(clean_audio = <<>> /\ clean_visuals = <<>>)
    /\ pc' = "return"
    /\ UNCHANGED <<raw, full_text, parts, idx, current_tag, clean_audio, clean_visuals, lines, lidx, result>>

\* the line the loop of line 67 is at, stripped (line 68)
Line == Strip(lines[lidx])

InFallback == pc = "fallback" /\ lidx <= Len(lines)

\* line 69
SkipBlankLine ==
    /\ InFallback
    /\ Line = <<>>
    /\ lidx' = lidx + 1
    /\ UNCHANGED <<raw, full_text, parts, idx, current_tag, clean_audio, clean_visuals, lines, pc, result>>

\* lines 70-71
VisualLine ==
    /\ InFallback
    /\ Line # <<>>
    /\ IsVisualLine(Line)
    /\ clean_visuals' = Append(clean_visuals, Line)
    /\ lidx' = lidx + 1
    /\ UNCHANGED <<raw, full_text, parts, idx, current_tag, clean_audio, lines, pc, result>>

\* lines 72-73
SpeechLine ==
    /\ InFallback
    /\ Line # <<>>
    /\ ~IsVisualLine(Line)
    /\ clean_audio' = Append(clean_audio, Line)
    /\ lidx' = lidx + 1
    /\ UNCHANGED <<raw, full_text, parts, idx, current_tag, clean_visuals, lines, pc, result>>

\* the loop of line 67 is over
FallbackOver ==
    /\ pc = "fallback"
    /\ lidx > Len(lines)
    /\ pc' = "return"
    /\ UNCHANGED <<raw, full_text, parts, idx, current_tag, clean_audio, clean_visuals, lines, lidx, result>>

\* AtReturn refusing to return when nothing was collected
AtReturnWithContent == pc = "return" /\ (clean_audio # <<>> \/ clean_visuals # <<>>)

\* line 75 is reached, whatever was collected
AtReturn == pc = "return"

\* line 75
Return ==
    /\ AtReturn
    /\ result' = <<Join(clean_audio), Join(clean_visuals)>>
    /\ pc' = "done"
    /\ UNCHANGED <<raw, full_text, parts, idx, current_tag, clean_audio, clean_visuals, lines, lidx>>

Next ==
    \/ Normalize
    \/ Split
    \/ SkipEmpty
    \/ SeeAudioTag
    \/ SeeVisualTag
    \/ AudioContent
    \/ VisualContent
    \/ Untagged
    \/ EnterFallback
    \/ SkipFallback
    \/ SkipBlankLine
    \/ VisualLine
    \/ SpeechLine
    \/ FallbackOver
    \/ Return

Spec == Init /\ [][Next]_vars

(***************************************************************************)
(* Vocabulary of the properties.                                           *)
(***************************************************************************)
\* a fragment of the split that is a canonical tag
IsTagFragment(f) == Upper(Strip(f)) \in {AudioTag, VisualTag}

TagOfFragment(f) == IF Upper(Strip(f)) = AudioTag THEN "AUDIO" ELSE "VISUAL"

\* the tag of the most recent tag fragment before fragment i, "None" when
\* no tag fragment precedes it
TagBefore(ps, i) ==
    LET ms == {j \in 1..(i - 1) : IsTagFragment(ps[j])}
    IN  IF ms = {} THEN "None" ELSE TagOfFragment(ps[Max(ms)])

\* the members of a set of numbers in increasing order
Ordered(S) == [k \in 1..Cardinality(S) |-> CHOOSE i \in S : Cardinality({j \in S : j < i}) = k - 1]

\* the non-empty cleaned SPEECH runs of the fragments, in fragment order
SpeechRunsInOrder(ps) ==
    LET S == {i \in 1..Len(ps) : /\ ~IsTagFragment(ps[i])
                                 /\ TagBefore(ps, i) = "AUDIO"
                                 /\ CleanAudio(Strip(ps[i])) # <<>>}
        ord == Ordered(S)
    IN  [k \in 1..Cardinality(S) |-> CleanAudio(Strip(ps[ord[k]]))]

\* the non-empty VISUAL runs of the fragments, in fragment order
VisualRunsInOrder(ps) ==
    LET S == {i \in 1..Len(ps) : /\ ~IsTagFragment(ps[i])
                                 /\ TagBefore(ps, i) = "VISUAL"
                                 /\ Strip(ps[i]) # <<>>}
        ord == Ordered(S)
    IN  [k \in 1..Cardinality(S) |-> Strip(ps[ord[k]])]

IsNotBlank(line) == line # <<>>

IsSpeechLine(line) == ~IsVisualLine(line)

\* the non-blank lines of a text, trimmed, in order
TrimmedLines(text) ==
    LET ls == SplitLines(text)
    IN  SelectSeq([i \in 1..Len(ls) |-> Strip(ls[i])], IsNotBlank)

\* a recognised marker was found by the split
MarkerRecognized == Len(parts) > 1

\* the fallback of lines 66-73 was entered (split('\n') is never empty)
FallbackTaken == lines # <<>>

RECURSIVE SubseqFrom(_, _, _, _)
SubseqFrom(a, i, b, j) ==
    IF i > Len(a) THEN TRUE
    ELSE IF j > Len(b) THEN FALSE
    ELSE IF a[i] = b[j] THEN SubseqFrom(a, i + 1, b, j + 1)
    ELSE SubseqFrom(a, i, b, j + 1)

\* a is b with some characters deleted
IsSubseq(a, b) == SubseqFrom(a, 1, b, 1)

NoParenPair(s) == ~\E i, j \in 1..Len(s) : i < j /\ s[i] = "(" /\ s[j] = ")"

NoHeadingLine(s) == \A p \in 1..Len(s) : AtLineStart(s, p) => s[p] # "#"

NoStar(s) == \A p \in 1..Len(s) : s[p] # "*"

Count(s, c) == Cardinality({p \in 1..Len(s) : s[p] = c})

Trimmed(s) == s # <<>> /\ ~IsSpace(s[1]) /\ ~IsSpace(s[Len(s)])

\* a canonical tag occurs in s
HasTag(s) == \E p \in 1..Len(s) : TagMatchLen(s, p) > 0

IsString(s) == s \in Seq(LowerLetters \cup UpperLetters \cup Digits \cup
                         {" ", "\n", "[", "]", ":", "(", ")", "#", "*", ".", "-", "'", "_"})

(***************************************************************************)
(* C1                                                                      *)
(***************************************************************************)
ExampleOrderVisual == << <<"A">>, <<"C">> >>

ExampleOrderSpeech == << <<"B">> >>

\* C1: whenever a marker is recognised, the SPEECH blocks are the cleaned
\* non-empty SPEECH runs in the order of their fragments in the text and the
\* VISUAL blocks the VISUAL runs in the order of theirs (and, when nothing was
\* collected and the lines are classified instead, the blocks are the lines
\* in line order); "[VISUAL] A [AUDIO] B [VISUAL] C" yields VISUAL [A, C]
\* and SPEECH [B].
OrderPreserved ==
    (pc = "done" /\ MarkerRecognized) =>
        /\ ~FallbackTaken => /\ clean_audio = SpeechRunsInOrder(parts)
                             /\ clean_visuals = VisualRunsInOrder(parts)
        /\ FallbackTaken => /\ clean_audio = SelectSeq(TrimmedLines(full_text), IsSpeechLine)
                            /\ clean_visuals = SelectSeq(TrimmedLines(full_text), IsVisualLine)
        /\ raw = ExampleOrder => /\ clean_visuals = ExampleOrderVisual
                                 /\ clean_audio = ExampleOrderSpeech
                                 /\ result = <<<<"B">>, <<"A", "\n", "\n", "C">>>>

\* two blocks of one class were collected from tagged runs
OrderWitness ==
    /\ pc = "done"
    /\ MarkerRecognized
    /\ ~FallbackTaken
    /\ Len(clean_visuals) >= 2
    /\ clean_visuals[1] # clean_visuals[2]

(***************************************************************************)
(* C2                                                                      *)
(***************************************************************************)
\* C2: current_tag starts as None and is, at every fragment, the tag of the
\* most recent tag fragment before it; it changes only when a tag fragment
\* is processed; a non-empty text fragment goes to the list of the current
\* tag only, and to no list while no tag has been seen.
StickyTag ==
    /\ [](pc \in {"normalize", "split"} => current_tag = "None")
    /\ [](pc = "loop" => current_tag = TagBefore(parts, idx))
    /\ [][current_tag' # current_tag =>
            (InLoop /\ IsTagFragment(parts[idx]) /\ current_tag' = TagOfFragment(parts[idx]))]_vars
    /\ [][(InLoop /\ IsText(Part)) =>
            /\ current_tag' = current_tag
            /\ current_tag = "None" =>
                    (clean_audio' = clean_audio /\ clean_visuals' = clean_visuals)
            /\ current_tag = "AUDIO" =>
                    /\ clean_visuals' = clean_visuals
                    /\ clean_audio' = IF CleanAudio(Part) = <<>> THEN clean_audio
                                      ELSE Append(clean_audio, CleanAudio(Part))
            /\ current_tag = "VISUAL" =>
                    /\ clean_audio' = clean_audio
                    /\ clean_visuals' = Append(clean_visuals, Part)]_vars

\* text before the first marker was dropped and tagged runs were collected
StickyWitness ==
    /\ pc = "done"
    /\ ~FallbackTaken
    /\ MarkerRecognized
    /\ IsText(Strip(parts[1]))
    /\ clean_audio # <<>>
    /\ clean_visuals # <<>>

(***************************************************************************)
(* C3                                                                      *)
(***************************************************************************)
\* C3: the per-line fallback is taken only when no marker was recognised:
\* with a recognised marker the lines are never classified and the outputs
\* are the tagged runs alone.
FallbackOnlyWithoutMarkers ==
    MarkerRecognized =>
        /\ ~FallbackTaken
        /\ pc = "done" => /\ clean_audio = SpeechRunsInOrder(parts)
                          /\ clean_visuals = VisualRunsInOrder(parts)

(***************************************************************************)
(* C4                                                                      *)
(***************************************************************************)
ExampleClaimed == <<"H", "e", "y", " ", "e", "v", "e", "r", "y", "o", "n", "e", " ", "w", "e", "l", "c", "o", "m", "e", "\n", "L", "e", "t", "'", "s", " ", "d", "i", "v", "e", " ", "i", "n">>

ExampleCleaned == <<"H", "e", "y", " ", "e", "v", "e", "r", "y", "o", "n", "e", " ", " ", "w", "e", "l", "c", "o", "m", "e", "\n", "\n", "L", "e", "t", "'", "s", " ", "d", "i", "v", "e", " ", "i", "n">>

\* C4 as stated: the example SPEECH run cleans to exactly
\* "Hey everyone welcome\nLet's dive in".
CleanupAsClaimed ==
    (pc = "done" /\ raw = ExampleCleanup) => clean_audio = <<ExampleClaimed>>

\* t without the characters at the positions in D
DeleteAt(t, D) ==
    LET keep == Ordered((1..Len(t)) \ D)
    IN  [k \in 1..Len(keep) |-> t[keep[k]]]

\* the positions from a "(" that no ")" separates from p, up to a ")" at or after p
ParenSpans(t) ==
    {p \in 1..Len(t) : /\ \E o \in 1..p : t[o] = "(" /\ \A k \in o..(p - 1) : t[k] # ")"
                       /\ \E c \in p..Len(t) : t[c] = ")"}

\* the first position of the line that holds position p
LineStart(t, p) == Max({q \in 1..p : AtLineStart(t, q)})

\* the characters, line breaks excepted, of the lines that begin with "#"
HeadingSpans(t) == {p \in 1..Len(t) : t[p] # "\n" /\ t[LineStart(t, p)] = "#"}

\* word characters from a line start up to a colon, the colon, and the
\* whitespace that follows it
PrefixSpans(t) ==
    {p \in 1..Len(t) :
        \E q \in 1..p : \E c \in (q + 1)..Len(t) :
            /\ AtLineStart(t, q)
            /\ \A k \in q..(c - 1) : IsWordChar(t[k])
            /\ t[c] = ":"
            /\ p <= c \/ \A k \in (c + 1)..p : IsSpace(t[k])}

StarPositions(t) == {p \in 1..Len(t) : t[p] = "*"}

\* C4, amended: a SPEECH run is cleaned by four passes of deletions and a
\* trim: (1) every span from a "(" to the next ")", across lines, so that no
\* "(" is followed by a ")" any more; (2) the text of every line that begins
\* with "#", its line break staying; (3) at a line start, word characters
\* followed by a colon, with all the whitespace after the colon; (4) every
\* "*".  Nothing else is changed: whitespace around a deleted span is not
\* collapsed and a deleted heading leaves an empty line.  A block is
\* trimmed, non-empty, free of "*" and of "(...)" pairs; the example run
\* cleans to exactly "Hey everyone  welcome\n\nLet's dive in".
CleanupAsCoded ==
    /\ (InLoop /\ IsText(Part) /\ current_tag = "AUDIO") =>
          LET p1 == RemoveParens(Part)
              p2 == RemoveHeadings(p1)
              p3 == RemovePrefix(p2)
              p4 == RemoveStars(p3)
          IN  /\ p1 = DeleteAt(Part, ParenSpans(Part))
              /\ NoParenPair(p1)
              /\ p2 = DeleteAt(p1, HeadingSpans(p1))
              /\ NoHeadingLine(p2) /\ Count(p2, "\n") = Count(p1, "\n")
              /\ p3 = DeleteAt(p2, PrefixSpans(p2))
              /\ p4 = DeleteAt(p3, StarPositions(p3))
              /\ NoStar(p4)
              /\ CleanContent(Part) = p4
              /\ IsSubseq(CleanAudio(Part), Part)
    /\ (pc \in {"loop", "return", "done"} /\ ~FallbackTaken) =>
          \A k \in 1..Len(clean_audio) :
              /\ Trimmed(clean_audio[k])
              /\ NoStar(clean_audio[k])
              /\ NoParenPair(clean_audio[k])
    /\ (pc = "done" /\ raw = ExampleCleanup) =>
          /\ clean_audio = <<ExampleCleaned>>
          /\ result = <<ExampleCleaned, <<>>>>

\* the example run was cleaned
CleanupWitness ==
    /\ pc = "done"
    /\ raw = ExampleCleanup
    /\ parts[3] = ExampleRun
    /\ clean_audio = <<ExampleCleaned>>

(***************************************************************************)
(* C5                                                                      *)
(***************************************************************************)
AllWords == VisualWords \o <<<<"V", "I", "S", "U", "A", "L">>>> \o AudioWords

\* position p is the first non-blank position of its line
LeadsLine(text, p) == \A j \in 1..(p - 1) : (\A k \in j..(p - 1) : text[k] # "\n") => text[j] = " "

\* no brackets, no colon, and no marker word leading a line: whatever marker
\* word the text holds is an ordinary word inside a sentence
IsProse(text) ==
    /\ \A p \in 1..Len(text) : text[p] \notin {"[", "]", ":"}
    /\ \A p \in 1..Len(text) : WordLenAt(text, p, AllWords) > 0 => ~LeadsLine(text, p)

\* C5: normalisation leaves prose unchanged: a marker word inside a sentence
\* is not rewritten to a canonical tag and starts no run.
ProseUntouched ==
    IsProse(raw) => /\ full_text = raw
                    /\ pc \in {"loop", "fallback", "return", "done"} => ~MarkerRecognized

(***************************************************************************)
(* C6                                                                      *)
(***************************************************************************)
VisualSpellingInputs == SpellingInputsOf(VisualSpellings)

AudioSpellingInputs == SpellingInputsOf(AudioSpellings)

\* C6: every spelling of a marker, in any case, bracketed or not, with or
\* without a colon, makes the text after it a run of its class, and nothing
\* of the marker stays in the run.
AllSpellingsRecognized ==
    pc = "done" =>
        /\ raw \in VisualSpellingInputs => (clean_visuals = <<<<"a">>>> /\ clean_audio = <<>>)
        /\ raw \in AudioSpellingInputs => (clean_audio = <<<<"a">>>> /\ clean_visuals = <<>>)

(***************************************************************************)
(* C7                                                                      *)
(***************************************************************************)
\* C7: on the fallback path the blocks are the non-blank lines of the input,
\* trimmed, in order: VISUAL those that start with "(" or "[" or contain
\* "EXT." or "INT.", SPEECH the others, with no clean-up.
FallbackClassifiesInputLines ==
    (pc = "done" /\ FallbackTaken) =>
        /\ clean_visuals = SelectSeq(TrimmedLines(raw), IsVisualLine)
        /\ clean_audio = SelectSeq(TrimmedLines(raw), IsSpeechLine)

(***************************************************************************)
(* C8                                                                      *)
(***************************************************************************)
\* C8: cleaning a cleaned SPEECH run again changes nothing.
CleanupIdempotent ==
    (InLoop /\ IsText(Part) /\ current_tag = "AUDIO") =>
        CleanAudio(CleanAudio(Part)) = CleanAudio(Part)

(***************************************************************************)
(* C9                                                                      *)
(***************************************************************************)
\* the position in the function, counted from its end
Stage ==
    CASE pc = "normalize" -> 5
      [] pc = "split" -> 4
      [] pc = "loop" -> 3
      [] pc = "fallback" -> 2
      [] pc = "return" -> 1
      [] pc = "done" -> 0

\* the iterations the loop the function is in still has to make
Remaining ==
    CASE pc = "loop" -> Len(parts) + 1 - idx
      [] pc = "fallback" -> Len(lines) + 1 - lidx
      [] OTHER -> 0

\* some statement of the function can be executed
CanStep ==
    \/ pc \in {"normalize", "split"}
    \/ InLoop /\ (Part = <<>> \/ Upper(Part) = AudioTag \/ Upper(Part) = VisualTag)
    \/ InLoop /\ IsText(Part) /\ current_tag \in {"AUDIO", "VISUAL", "None"}
    \/ LoopOver
    \/ InFallback
    \/ pc = "fallback" /\ lidx > Len(lines)
    \/ AtReturn

\* C9: on every input parse_script runs to its return statement: every step
\* brings it nearer to the return, it is never stuck before it, and it
\* returns a pair of strings; for the empty string both are empty.
Total ==
    /\ [](pc # "done" => CanStep)
    /\ [](Remaining >= 0)
    /\ [][Stage' < Stage \/ (Stage' = Stage /\ Remaining' < Remaining)]_vars
    /\ [](pc = "done" => /\ Len(result) = 2
                         /\ IsString(result[1])
                         /\ IsString(result[2])
                         /\ raw = <<>> => result = <<<<>>, <<>>>>)

\* the empty string was parsed
TotalWitness ==
    /\ pc = "done"
    /\ raw = <<>>
    /\ FallbackTaken
    /\ result = <<<<>>, <<>>>>

(***************************************************************************)
(* C10                                                                     *)
(***************************************************************************)
\* C10: neither returned string holds a canonical tag.
NoMarkerLeak ==
    pc = "done" => (~HasTag(result[1]) /\ ~HasTag(result[2]))

====
